---- MODULE Spec2Model ----
(***************************************************************************)
(* Model of the monthly financial projection pipeline of                   *)
(* src/financial_model.py (FinancialModel.run_projection and its six       *)
(* stages) with the constants of src/config.py.                            *)
(*                                                                         *)
(* Numbers.  Integer columns (calendar facts, unit counts) are TLA+        *)
(* integers.  Every float column is a record                               *)
(*     [k |-> "num" | "nan" | "inf", n, d, e]                              *)
(* standing for the real number (n/d) * G^e, where n/d is a fraction in    *)
(* lowest terms and G = (1 + INFLATION_RATE) ** Year_Fraction is the       *)
(* inflation factor of the row the value belongs to.  G is kept symbolic:  *)
(* it is 1 exactly when Year_Fraction is 0 and a number > 1 otherwise, so  *)
(* two values of one row are equal iff their records are equal.  "nan" and *)
(* "inf" are the IEEE results pandas produces for 0/0 and x/0.             *)
(***************************************************************************)
EXTENDS Integers, Sequences, FiniteSets, TLC

VARIABLES
    config,      \* the Config object handed to FinancialModel.__init__
    scenario,    \* the scenario mapping handed to run_projection
    output_path, \* run_projection's output_path argument (TRUE: a directory)
    df,          \* the DataFrame under construction: a sequence of rows
    pc,          \* the stage run_projection executes next
    error,       \* the exception that ended run_projection, or "none"
    returned,    \* TRUE once run_projection has returned df
    csv_written  \* TRUE once df.to_csv has run

vars == <<config, scenario, output_path, df, pc, error, returned, csv_written>>

(***************************************************************************)
(* Bounds of the model.                                                    *)
(***************************************************************************)
MaxYears == 6        \* longest projection horizon explored
MaxTarget == 40      \* largest swept annual unit target

(***************************************************************************)
(* Float arithmetic.                                                       *)
(***************************************************************************)
Abs(x) == IF x < 0 THEN -x ELSE x

Sign(x) == IF x < 0 THEN -1 ELSE IF x > 0 THEN 1 ELSE 0

RECURSIVE GCD(_, _)
GCD(a, b) == IF b = 0 THEN a ELSE GCD(b, a % b)

Zero == [k |-> "num", n |-> 0, d |-> 1, e |-> 0]

NaN == [k |-> "nan", n |-> 0, d |-> 1, e |-> 0]

Inf(s) == [k |-> "inf", n |-> s, d |-> 1, e |-> 0]

\* the fraction n/d (d > 0) times G^e, in lowest terms
Norm(n, d, e) ==
    IF n = 0 THEN Zero
    ELSE IF d = 1 THEN [k |-> "num", n |-> n, d |-> 1, e |-> e]
    ELSE LET g == GCD(Abs(n), d)
         IN  [k |-> "num", n |-> n \div g, d |-> d \div g, e |-> e]

\* an int taking part in float arithmetic
I(x) == [k |-> "num", n |-> x, d |-> 1, e |-> 0]

\* a float literal, e.g. 0.25 = Q(25, 100)
Q(n, d) == Norm(n, d, 0)

IsNum(a) == a.k = "num"

IsZero(a) == a.k = "num" /\ a.n = 0

Neg(a) == [a EXCEPT !.n = -a.n]

Mul(a, b) ==
    IF a.k = "nan" \/ b.k = "nan" THEN NaN
    ELSE IF a.k = "inf" \/ b.k = "inf"
         THEN IF a.n = 0 \/ b.n = 0 THEN NaN ELSE Inf(Sign(a.n) * Sign(b.n))
    ELSE IF a.n = 0 \/ b.n = 0 THEN Zero
    ELSE IF a.d = 1 /\ b.d = 1
         THEN [k |-> "num", n |-> a.n * b.n, d |-> 1, e |-> a.e + b.e]
    ELSE LET g1 == GCD(Abs(a.n), b.d)
             g2 == GCD(Abs(b.n), a.d)
         IN  [k |-> "num",
              n |-> (a.n \div g1) * (b.n \div g2),
              d |-> (a.d \div g2) * (b.d \div g1),
              e |-> a.e + b.e]

\* Two nonzero numbers of one row carry the same power of G whenever the
\* program adds them; zero carries none.
Add(a, b) ==
    IF a.k = "nan" \/ b.k = "nan" THEN NaN
    ELSE IF a.k = "inf" /\ b.k = "inf"
         THEN IF a.n = b.n THEN a ELSE NaN
    ELSE IF a.k = "inf" THEN a
    ELSE IF b.k = "inf" THEN b
    ELSE IF a.n = 0 THEN b
    ELSE IF b.n = 0 THEN a
    ELSE CASE a.e = b.e ->
              IF a.d = 1 /\ b.d = 1
              THEN Norm(a.n + b.n, 1, a.e)
              ELSE LET g == GCD(a.d, b.d)
                   IN  Norm(a.n * (b.d \div g) + b.n * (a.d \div g),
                            (a.d \div g) * b.d, a.e)

Sub(a, b) == Add(a, Neg(b))

\* Series / Series: IEEE division, 0/0 = NaN and x/0 = +-inf, never an error
Div(a, b) ==
    IF a.k = "nan" \/ b.k = "nan" THEN NaN
    ELSE IF b.k = "inf"
         THEN IF a.k = "inf" THEN NaN ELSE Zero
    ELSE IF a.k = "inf"
         THEN Inf(IF b.n < 0 THEN -a.n ELSE a.n)
    ELSE IF b.n = 0
         THEN IF a.n = 0 THEN NaN ELSE Inf(Sign(a.n))
    ELSE Mul(a, [k |-> "num",
                 n |-> Sign(b.n) * b.d, d |-> Abs(b.n), e |-> -b.e])

\* a >= b for two numbers carrying the same power of G
Geq(a, b) == LET s == Sub(a, b) IN s.k = "num" /\ s.n >= 0

\* Series.replace(0, np.nan)
ReplaceZeroNaN(a) == IF IsZero(a) THEN NaN ELSE a

\* Series.fillna(0)
FillNa0(a) == IF a.k = "nan" THEN Zero ELSE a

\* Python's round() of the fraction n/d (d > 0): to the nearest int, ties
\* to the even one.  For the seasonal products target * q * m the float
\* product rounds as the exact fraction does (targets 0..399).
Round(n, d) ==
    LET fl == n \div d
        r2 == 2 * (n - fl * d)
    IN  IF r2 < d THEN fl
        ELSE IF r2 > d THEN fl + 1
        ELSE IF fl % 2 = 0 THEN fl ELSE fl + 1

(***************************************************************************)
(* Configuration constants (src/config.py).                                *)
(***************************************************************************)
COMPONENTS_COST == 76000
LABOR_COST_PERCENTAGE == Q(25, 100)
TCU_COST == 5000
TCU_PRICE == 6000
UTILITY_CART_COST == 3000
UTILITY_CART_PRICE == 6000
AUTOFILLER_COST == 3000
AUTOFILLER_PRICE == 6000
INITIAL_VESSEL_COST == 325
INITIAL_VESSEL_PRICE == 600
SAFETY_FACTOR == Q(10, 10)
INITIAL_AUTOFILLER_PACK_COST == 29
INITIAL_AUTOFILLER_PACK_PRICE == 80
SUBSCRIPTION_PRICE == 10000
SERVICE_CONTRACT_PERCENTAGE == Q(10, 100)
CART_UTILIZATION_PERCENTAGE == Q(80, 100)
PARTNER_HARDWARE_DISCOUNT == Q(25, 100)
PARTNER_CONSUMABLES_DISCOUNT == Q(30, 100)
INSTALLATION_PRICE == 10000
INSTALLATION_COST == 5000
INFLATION_RATE == Q(25, 1000)
INITIAL_SELLING_PRICE == 212000
AAV_MAN_RUN_PERCENTAGE == Q(0, 100)
AAV_AUTO_RUN_PERCENTAGE == Q(20, 100)
MAMMALIAN_RUN_PERCENTAGE == Q(64, 100)
MAMMALIAN_GLASS_RUN_PERCENTAGE == Q(16, 100)
AAV_RUNS_PER_MONTH == 2
MAMMALIAN_RUNS_PER_MONTH == 1

\* ProcessConfig.TOTAL_RUNS_PER_YEAR_PER_CART (a property)
TOTAL_RUNS_PER_YEAR_PER_CART ==
    Add(Mul(I(AAV_RUNS_PER_MONTH * 12),
            Add(AAV_MAN_RUN_PERCENTAGE, AAV_AUTO_RUN_PERCENTAGE)),
        Mul(I(MAMMALIAN_RUNS_PER_MONTH * 12),
            Add(MAMMALIAN_RUN_PERCENTAGE, MAMMALIAN_GLASS_RUN_PERCENTAGE)))

\* The Config() the repository ships: SoftwareConfig declares
\* SUBSCRIPTION_PRICE and SERVICE_CONTRACT_PERCENTAGE and nothing else.
ShippedConfig == [has_SOFTWARE_COST_PERCENTAGE |-> FALSE]

\* A Config whose software group also carries SOFTWARE_COST_PERCENTAGE, the
\* attribute _calculate_pricing reads ("Software cost is 10% of the price").
ConfigWithSoftwareCost == [has_SOFTWARE_COST_PERCENTAGE |-> TRUE]

SOFTWARE_COST_PERCENTAGE == Q(10, 100)

(***************************************************************************)
(* Scenario mappings.  An optional key is "absent", "True" or "False"; a   *)
(* per-year mapping is a function on the relative years it has entries     *)
(* for, with a has_ flag saying whether the key is there at all.           *)
(***************************************************************************)
\* dict.get(key, default) for a boolean toggle
GetFlag(value, default) == IF value = "absent" THEN default ELSE value = "True"

\* dict.get(year, 0) on a per-year mapping
GetYear(mapping, year) == IF year \in DOMAIN mapping THEN mapping[year] ELSE 0

\* scenario.get('direct_sales_by_year', {1: 0, 2: 0, 3: 0, 4: 0, 5: 0})
DefaultDirectSales == [y \in 1..5 |-> 0]

(***************************************************************************)
(* Stage 1: _initialize_dataframe.                                         *)
(***************************************************************************)
\* a plausible slip: the January wrap resets end_month but keeps end_year
EndDateNoYearWrap(start_year, start_month, projection_years) ==
    [year |-> start_year + projection_years,
     month |-> IF start_month - 1 = 0 THEN 12 ELSE start_month - 1]

\* the ending date: the month before the anniversary of the start month
EndDate(start_year, start_month, projection_years) ==
    IF start_month - 1 = 0
    THEN [year |-> start_year + projection_years - 1, month |-> 12]
    ELSE [year |-> start_year + projection_years, month |-> start_month - 1]

InitializeDataframeRows(start_year, start_month, projection_years) ==
    LET end_year == EndDate(start_year, start_month, projection_years).year
        end_month == EndDate(start_year, start_month, projection_years).month
        nYears == end_year + 1 - start_year
        data == [j \in 1..(12 * nYears) |->
                    [Year |-> start_year + ((j - 1) \div 12),
                     Month |-> ((j - 1) % 12) + 1]]
        start_date == start_year * 12 + start_month
        end_date == end_year * 12 + end_month
        InRange(r) == /\ r.Year * 12 + r.Month >= start_date
                      /\ r.Year * 12 + r.Month <= end_date
        kept == SelectSeq(data, InRange)
        start_date_fraction ==
            Add(I(start_year), Div(I(start_month - 1), I(12)))
    IN  [i \in 1..Len(kept) |->
            LET r == kept[i]
                Date_Value == r.Year * 12 + r.Month
                Months_From_Start == Date_Value - start_date
            IN  [Year |-> r.Year,
                 Month |-> r.Month,
                 Date_Value |-> Date_Value,
                 Months_From_Start |-> Months_From_Start,
                 Relative_Year |-> (Months_From_Start \div 12) + 1,
                 Relative_Month |-> (Months_From_Start % 12) + 1,
                 Quarter |-> ((r.Month - 1) \div 3) + 1,
                 Month_in_Quarter |-> ((r.Month - 1) % 3) + 1,
                 Year_Fraction |->
                     Sub(Add(I(r.Year), Div(I(r.Month - 1), I(12))),
                         start_date_fraction)]]

InitializeDataframe ==
    /\ pc = "initialize"
    /\ df' = InitializeDataframeRows(scenario.start_year, scenario.start_month,
                                     scenario.projection_years)
    /\ pc' = "cart_sales"
    /\ UNCHANGED <<config, scenario, output_path, error, returned, csv_written>>

(***************************************************************************)
(* Stage 2: _calculate_cart_sales.                                         *)
(***************************************************************************)
quarter_distribution == <<Q(15, 100), Q(20, 100), Q(25, 100), Q(40, 100)>>

month_in_quarter_distribution == <<Q(20, 100), Q(30, 100), Q(50, 100)>>

\* range(1, 6): the relative years the distribution loop visits
LoopYears == 1..5

\* round(yearly * quarter_pct * month_pct)
MonthlyCarts(yearly, quarter, month_in_quarter) ==
    LET p == Mul(Mul(I(yearly), quarter_distribution[quarter]),
                 month_in_quarter_distribution[month_in_quarter])
    IN  Round(p.n, p.d)

\* a plausible slip: the weights looked up by the row's calendar Quarter and
\* Month_in_Quarter columns
PartnerCartsCalendar(row, partner_sales_by_year) ==
    IF row.Relative_Year \in 1..5
       /\ row.Relative_Year \in DOMAIN partner_sales_by_year
    THEN LET p == Mul(Mul(I(partner_sales_by_year[row.Relative_Year]),
                          Q(<<15, 20, 25, 40>>[row.Quarter], 100)),
                      Q(<<20, 30, 50>>[row.Month_in_Quarter], 100))
         IN  Round(p.n, p.d)
    ELSE 0

\* The loop writes row (rel_year, rel_month) once, with
\* rel_month = (quarter - 1) * 3 + month_in_quarter, for the rel_years of
\* the loop that partner_sales_by_year has; every other row keeps its 0.
PartnerCartsOf(row, partner_sales_by_year) ==
    IF row.Relative_Year \in LoopYears
       /\ row.Relative_Year \in DOMAIN partner_sales_by_year
    THEN MonthlyCarts(partner_sales_by_year[row.Relative_Year],
                      ((row.Relative_Month - 1) \div 3) + 1,
                      ((row.Relative_Month - 1) % 3) + 1)
    ELSE 0

DirectCartsOf(row, partner_sales_by_year, direct_sales_by_year) ==
    IF row.Relative_Year \in LoopYears
       /\ row.Relative_Year \in DOMAIN partner_sales_by_year
    THEN MonthlyCarts(GetYear(direct_sales_by_year, row.Relative_Year),
                      ((row.Relative_Month - 1) \div 3) + 1,
                      ((row.Relative_Month - 1) % 3) + 1)
    ELSE 0

\* a plausible slip: a running sum that leaves out the current row
RECURSIVE CumSumExclusive(_, _)
CumSumExclusive(col, t) ==
    IF t <= 1 THEN 0 ELSE col[t - 1] + CumSumExclusive(col, t - 1)

\* Series.cumsum() of an int column, at row t
RECURSIVE CumSum(_, _)
CumSum(col, t) == IF t = 0 THEN 0 ELSE col[t] + CumSum(col, t - 1)

CartSalesRows(d, scn) ==
    LET partner == scn.partner_sales_by_year
        direct == IF scn.has_direct_sales THEN scn.direct_sales_by_year
                  ELSE DefaultDirectSales
        Partner_Carts == [i \in 1..Len(d) |-> PartnerCartsOf(d[i], partner)]
        Direct_Carts == [i \in 1..Len(d) |-> DirectCartsOf(d[i], partner, direct)]
        Monthly_New_Carts == [i \in 1..Len(d) |-> Direct_Carts[i] + Partner_Carts[i]]
    IN  [i \in 1..Len(d) |->
            d[i] @@ [Partner_Carts |-> Partner_Carts[i],
                     Direct_Carts |-> Direct_Carts[i],
                     Monthly_New_Carts |-> Monthly_New_Carts[i],
                     Total_Carts |-> CumSum(Monthly_New_Carts, i),
                     Cumulative_Direct_Carts |-> CumSum(Direct_Carts, i),
                     Cumulative_Partner_Carts |-> CumSum(Partner_Carts, i)]]

\* scenario['partner_sales_by_year'] raises KeyError when the key is absent
CalculateCartSales ==
    /\ pc = "cart_sales"
    /\ IF scenario.has_partner_sales
       THEN /\ df' = CartSalesRows(df, scenario)
            /\ pc' = "pricing"
            /\ error' = error
       ELSE /\ df' = df
            /\ pc' = "raised"
            /\ error' = "KeyError"
    /\ UNCHANGED <<config, scenario, output_path, returned, csv_written>>

(***************************************************************************)
(* Stage 3: _calculate_pricing.                                            *)
(***************************************************************************)
\* (1 + INFLATION_RATE) ** year_fraction: 1.0 at year_fraction 0, else the
\* row's symbolic factor G
InflationFactor(year_fraction) ==
    IF IsZero(year_fraction) \/ IsZero(INFLATION_RATE) THEN I(1)
    ELSE [k |-> "num", n |-> 1, d |-> 1, e |-> 1]

\* a plausible slip: both adjustments applied whatever the flags say
ApplyIgnoringFlags(initial_value, year_fraction, cost_reduction, apply_inflation, apply_reduction) ==
    Mul(Mul(initial_value, InflationFactor(year_fraction)),
        Sub(I(1), Mul(cost_reduction, year_fraction)))

ApplyInflationAndReduction(initial_value, year_fraction, cost_reduction, apply_inflation, apply_reduction) ==
    LET inflation_factor == IF apply_inflation
                            THEN InflationFactor(year_fraction) ELSE I(1)
        reduction_factor == IF apply_reduction
                            THEN Sub(I(1), Mul(cost_reduction, year_fraction))
                            ELSE I(1)
    IN  Mul(Mul(initial_value, inflation_factor), reduction_factor)

\* scenario.get('apply_inflation', True)
ApplyInflationFlag(scn) == GetFlag(scn.apply_inflation, TRUE)

\* scenario.get('apply_reduction', True)
ApplyReductionFlag(scn) == GetFlag(scn.apply_reduction, TRUE)

\* scenario.get('selling_price_reduction_by_year', {})
SellingPriceReduction(scn) ==
    IF scn.has_selling_price_reduction
    THEN scn.selling_price_reduction_by_year ELSE << >>

\* a plausible slip: a selling price left at its base, without inflation
PriceCurveFlat(base, row, scn) == base

\* a plausible slip: a selling price that follows the scenario's reduction
PriceCurveReduced(base, row, scn) ==
    ApplyInflationAndReduction(base, row.Year_Fraction, scn.cost_reduction,
                               ApplyInflationFlag(scn), ApplyReductionFlag(scn))

\* a selling price: cost_reduction 0, reduction flag False
PriceCurve(base, row, scn) ==
    ApplyInflationAndReduction(base, row.Year_Fraction, Zero,
                               ApplyInflationFlag(scn), FALSE)

\* an internal cost: scenario['cost_reduction'], both flags of the scenario
CostCurve(base, row, scn) ==
    ApplyInflationAndReduction(base, row.Year_Fraction, scn.cost_reduction,
                               ApplyInflationFlag(scn), ApplyReductionFlag(scn))

\* the columns the stage adds to one row
PricingColumns(row, scn) ==
    LET Base_Selling_Price == PriceCurve(I(INITIAL_SELLING_PRICE), row, scn)
        spr == SellingPriceReduction(scn)
        End_Customer_Hardware_Price ==
            IF row.Relative_Year \in DOMAIN spr
            THEN Mul(Base_Selling_Price, Sub(I(1), spr[row.Relative_Year]))
            ELSE Base_Selling_Price
        Hardware_Manufacturing_Cost ==
            CostCurve(Mul(I(COMPONENTS_COST), Add(I(1), LABOR_COST_PERCENTAGE)),
                      row, scn)
        Utility_Cart_Mfg_Cost == CostCurve(I(UTILITY_CART_COST), row, scn)
        Utility_Cart_End_Price == PriceCurve(I(UTILITY_CART_PRICE), row, scn)
        TCU_Mfg_Cost == CostCurve(I(TCU_COST), row, scn)
        TCU_End_Price == PriceCurve(I(TCU_PRICE), row, scn)
        Autofiller_Unit_Mfg_Cost == CostCurve(I(AUTOFILLER_COST), row, scn)
        Autofiller_Unit_End_Price == PriceCurve(I(AUTOFILLER_PRICE), row, scn)
        End_Customer_Software_Price == PriceCurve(I(SUBSCRIPTION_PRICE), row, scn)
        Software_Year_Fraction == Div(I(13 - row.Month), I(12))
        End_Customer_Vessel_Price == PriceCurve(I(INITIAL_VESSEL_PRICE), row, scn)
        End_Customer_Autofiller_Pack_Price ==
            PriceCurve(I(INITIAL_AUTOFILLER_PACK_PRICE), row, scn)
    IN  [Base_Selling_Price |-> Base_Selling_Price,
         End_Customer_Hardware_Price |-> End_Customer_Hardware_Price,
         Hardware_Manufacturing_Cost |-> Hardware_Manufacturing_Cost,
         Utility_Cart_Mfg_Cost |-> Utility_Cart_Mfg_Cost,
         Utility_Cart_End_Price |-> Utility_Cart_End_Price,
         TCU_Mfg_Cost |-> TCU_Mfg_Cost,
         TCU_End_Price |-> TCU_End_Price,
         TCU_Partner_Price |-> TCU_End_Price,
         Autofiller_Unit_Mfg_Cost |-> Autofiller_Unit_Mfg_Cost,
         Autofiller_Unit_End_Price |-> Autofiller_Unit_End_Price,
         Total_Hardware_Manufacturing_Cost |->
             Add(Add(Hardware_Manufacturing_Cost, Utility_Cart_Mfg_Cost),
                 TCU_Mfg_Cost),
         Hardware_Partner_Price |->
             Mul(End_Customer_Hardware_Price,
                 Sub(I(1), PARTNER_HARDWARE_DISCOUNT)),
         Utility_Cart_Partner_Price |->
             Mul(Utility_Cart_End_Price, Sub(I(1), PARTNER_HARDWARE_DISCOUNT)),
         Autofiller_Unit_Partner_Price |->
             Mul(Autofiller_Unit_End_Price,
                 Sub(I(1), PARTNER_CONSUMABLES_DISCOUNT)),
         End_Customer_Software_Price |-> End_Customer_Software_Price,
         Software_Our_Cost |->
             Mul(End_Customer_Software_Price, SOFTWARE_COST_PERCENTAGE),
         Software_Partner_Price |-> Zero,
         Software_Year_Fraction |-> Software_Year_Fraction,
         Software_Revenue_Factor |->
             IF row.Month > 1 THEN Software_Year_Fraction ELSE I(1),
         End_Customer_Vessel_Price |-> End_Customer_Vessel_Price,
         Vessel_Manufacturing_Cost |->
             CostCurve(I(INITIAL_VESSEL_COST), row, scn),
         Vessel_Partner_Price |->
             Mul(End_Customer_Vessel_Price,
                 Sub(I(1), PARTNER_CONSUMABLES_DISCOUNT)),
         End_Customer_Autofiller_Pack_Price |-> End_Customer_Autofiller_Pack_Price,
         Autofiller_Pack_Mfg_Cost |->
             CostCurve(I(INITIAL_AUTOFILLER_PACK_COST), row, scn),
         Autofiller_Pack_Partner_Price |->
             Mul(End_Customer_Autofiller_Pack_Price,
                 Sub(I(1), PARTNER_CONSUMABLES_DISCOUNT)),
         Installation_End_Price |-> PriceCurve(I(INSTALLATION_PRICE), row, scn),
         Installation_Our_Cost |-> CostCurve(I(INSTALLATION_COST), row, scn)]

PricingRows(d, scn) == [i \in 1..Len(d) |-> d[i] @@ PricingColumns(d[i], scn)]

\* self.config.software.SOFTWARE_COST_PERCENTAGE raises AttributeError on a
\* Config whose software group lacks the attribute
CalculatePricing ==
    /\ pc = "pricing"
    /\ IF config.has_SOFTWARE_COST_PERCENTAGE
       THEN /\ df' = PricingRows(df, scenario)
            /\ pc' = "consumables"
            /\ error' = error
       ELSE /\ df' = df
            /\ pc' = "raised"
            /\ error' = "AttributeError"
    /\ UNCHANGED <<config, scenario, output_path, returned, csv_written>>

(***************************************************************************)
(* Stage 4: _calculate_consumables.                                        *)
(***************************************************************************)
ConsumablesColumns(row) ==
    LET Monthly_Runs ==
            Mul(Mul(Mul(I(row.Total_Carts), I(4)),
                    Div(TOTAL_RUNS_PER_YEAR_PER_CART, I(12))),
                CART_UTILIZATION_PERCENTAGE)
        Mammalian_Vessels == Mul(Monthly_Runs, MAMMALIAN_RUN_PERCENTAGE)
        Mammalian_Glass_Vessels == Mul(Monthly_Runs, MAMMALIAN_GLASS_RUN_PERCENTAGE)
        AAV_Man_Vessels == Mul(Monthly_Runs, AAV_MAN_RUN_PERCENTAGE)
        AAV_Auto_Vessels == Mul(Monthly_Runs, AAV_AUTO_RUN_PERCENTAGE)
    IN  [Monthly_Runs |-> Monthly_Runs,
         Mammalian_Vessels |-> Mammalian_Vessels,
         Mammalian_Glass_Vessels |-> Mammalian_Glass_Vessels,
         AAV_Man_Vessels |-> AAV_Man_Vessels,
         AAV_Auto_Vessels |-> AAV_Auto_Vessels,
         Total_Vessels |->
             Add(Add(Add(Mammalian_Vessels, Mammalian_Glass_Vessels),
                     AAV_Man_Vessels), AAV_Auto_Vessels)]

CalculateConsumables ==
    /\ pc = "consumables"
    /\ df' = [i \in 1..Len(df) |-> df[i] @@ ConsumablesColumns(df[i])]
    /\ pc' = "value_chain"
    /\ UNCHANGED <<config, scenario, output_path, error, returned, csv_written>>

(***************************************************************************)
(* Stage 5: _calculate_value_chain.                                        *)
(***************************************************************************)
\* a plausible slip: the column read without the shift, i.e. the current row
ShiftNone(d, i, column) == I(d[i][column])

\* Series.shift(1).fillna(0) of an int column, at row i
ShiftFill(d, i, column) == IF i = 1 THEN Zero ELSE I(d[i - 1][column])

ValueChainColumns(d, i, scn) ==
    LET row == d[i]
        new == I(row.Monthly_New_Carts)
        partner == I(row.Partner_Carts)
        Hardware_Our_Cost == Mul(new, row.Hardware_Manufacturing_Cost)
        Utility_Cart_Our_Cost == Mul(new, row.Utility_Cart_Mfg_Cost)
        TCU_Our_Cost == Mul(new, row.TCU_Mfg_Cost)
        Autofiller_Unit_Our_Cost == Mul(new, row.Autofiller_Unit_Mfg_Cost)
        Installation_Our_Cost_Total == Mul(new, row.Installation_Our_Cost)
        Software_Our_Cost_Total ==
            Mul(Mul(new, row.Software_Our_Cost), row.Software_Revenue_Factor)
        Vessel_Our_Cost == Mul(row.Total_Vessels, row.Vessel_Manufacturing_Cost)
        Autofiller_Pack_Our_Cost ==
            Mul(Mul(row.Total_Vessels, row.Autofiller_Pack_Mfg_Cost), SAFETY_FACTOR)
        Service_Our_Cost ==
            Mul(Mul(Div(Mul(Mul(ShiftFill(d, i, "Total_Carts"),
                                row.End_Customer_Hardware_Price),
                            SERVICE_CONTRACT_PERCENTAGE), I(12)),
                    scn.service_adoption), Q(40, 100))
        Total_Our_Cost ==
            Add(Add(Add(Add(Add(Add(Add(Add(Hardware_Our_Cost,
                Utility_Cart_Our_Cost), TCU_Our_Cost), Autofiller_Unit_Our_Cost),
                Installation_Our_Cost_Total), Software_Our_Cost_Total),
                Vessel_Our_Cost), Autofiller_Pack_Our_Cost), Service_Our_Cost)
        Hardware_System_Our_Revenue == Mul(partner, row.Hardware_Partner_Price)
        Utility_Cart_Our_Revenue == Mul(partner, row.Utility_Cart_Partner_Price)
        TCU_Our_Revenue == Mul(partner, row.TCU_Mfg_Cost)
        Autofiller_Unit_Our_Revenue ==
            Mul(partner, row.Autofiller_Unit_Partner_Price)
        Total_Hardware_System_Our_Revenue ==
            Add(Add(Add(Hardware_System_Our_Revenue, Utility_Cart_Our_Revenue),
                    TCU_Our_Revenue), Autofiller_Unit_Our_Revenue)
        Installation_Our_Revenue == Mul(partner, row.Installation_End_Price)
        Software_Our_Revenue ==
            Mul(Mul(partner, row.End_Customer_Software_Price),
                row.Software_Revenue_Factor)
        Service_Our_Revenue ==
            Mul(Div(Mul(Mul(ShiftFill(d, i, "Cumulative_Partner_Carts"),
                            row.End_Customer_Hardware_Price),
                        SERVICE_CONTRACT_PERCENTAGE), I(12)),
                scn.service_adoption)
        carts_ratio_partner ==
            Div(I(row.Cumulative_Partner_Carts),
                FillNa0(ReplaceZeroNaN(I(row.Total_Carts))))
        Vessel_Our_Revenue ==
            Mul(Mul(row.Total_Vessels, carts_ratio_partner),
                row.Vessel_Partner_Price)
        Autofiller_Pack_Our_Revenue ==
            Mul(Mul(Mul(row.Total_Vessels, carts_ratio_partner),
                    row.Autofiller_Pack_Partner_Price), SAFETY_FACTOR)
        Total_Consumables_Our_Revenue ==
            Add(Vessel_Our_Revenue, Autofiller_Pack_Our_Revenue)
        Total_Our_Revenue ==
            Add(Add(Add(Add(Total_Hardware_System_Our_Revenue,
                Installation_Our_Revenue), Software_Our_Revenue),
                Service_Our_Revenue), Total_Consumables_Our_Revenue)
        Hardware_System_Market_Revenue ==
            Mul(partner, row.End_Customer_Hardware_Price)
        Utility_Cart_Market_Revenue == Mul(partner, row.Utility_Cart_End_Price)
        TCU_Market_Revenue == Mul(partner, row.TCU_End_Price)
        Autofiller_Unit_Market_Revenue ==
            Mul(partner, row.Autofiller_Unit_End_Price)
        Total_Hardware_System_Market_Revenue ==
            Add(Add(Add(Hardware_System_Market_Revenue,
                Utility_Cart_Market_Revenue), TCU_Market_Revenue),
                Autofiller_Unit_Market_Revenue)
        Installation_Market_Revenue == Mul(partner, row.Installation_End_Price)
        Software_Market_Revenue ==
            Mul(Mul(partner, row.End_Customer_Software_Price),
                row.Software_Revenue_Factor)
        Service_Market_Revenue ==
            Mul(Div(Mul(Mul(ShiftFill(d, i, "Cumulative_Partner_Carts"),
                            row.End_Customer_Hardware_Price),
                        SERVICE_CONTRACT_PERCENTAGE), I(12)),
                scn.service_adoption)
        Vessel_Market_Revenue ==
            Mul(Mul(row.Total_Vessels, carts_ratio_partner),
                row.End_Customer_Vessel_Price)
        Autofiller_Pack_Market_Revenue ==
            Mul(Mul(Mul(row.Total_Vessels, carts_ratio_partner),
                    row.End_Customer_Autofiller_Pack_Price), SAFETY_FACTOR)
        Total_Consumables_Market_Revenue ==
            Add(Vessel_Market_Revenue, Autofiller_Pack_Market_Revenue)
        Total_Market_Revenue ==
            Add(Add(Add(Add(Total_Hardware_System_Market_Revenue,
                Installation_Market_Revenue), Software_Market_Revenue),
                Service_Market_Revenue), Total_Consumables_Market_Revenue)
        Partner_Profit ==
            Add(Sub(Add(Sub(Sub(Total_Market_Revenue, Total_Our_Revenue),
                            Software_Market_Revenue), Software_Our_Revenue),
                    TCU_Market_Revenue), TCU_Our_Revenue)
    IN  [Hardware_Our_Cost |-> Hardware_Our_Cost,
         Utility_Cart_Our_Cost |-> Utility_Cart_Our_Cost,
         TCU_Our_Cost |-> TCU_Our_Cost,
         Autofiller_Unit_Our_Cost |-> Autofiller_Unit_Our_Cost,
         Installation_Our_Cost_Total |-> Installation_Our_Cost_Total,
         Software_Our_Cost_Total |-> Software_Our_Cost_Total,
         Vessel_Our_Cost |-> Vessel_Our_Cost,
         Autofiller_Pack_Our_Cost |-> Autofiller_Pack_Our_Cost,
         Service_Our_Cost |-> Service_Our_Cost,
         Total_Our_Cost |-> Total_Our_Cost,
         Hardware_System_Our_Revenue |-> Hardware_System_Our_Revenue,
         Utility_Cart_Our_Revenue |-> Utility_Cart_Our_Revenue,
         TCU_Our_Revenue |-> TCU_Our_Revenue,
         Autofiller_Unit_Our_Revenue |-> Autofiller_Unit_Our_Revenue,
         Total_Hardware_System_Our_Revenue |-> Total_Hardware_System_Our_Revenue,
         Installation_Our_Revenue |-> Installation_Our_Revenue,
         Software_Our_Revenue |-> Software_Our_Revenue,
         Service_Our_Revenue |-> Service_Our_Revenue,
         carts_ratio_partner |-> carts_ratio_partner,
         Vessel_Our_Revenue |-> Vessel_Our_Revenue,
         Autofiller_Pack_Our_Revenue |-> Autofiller_Pack_Our_Revenue,
         Total_Consumables_Our_Revenue |-> Total_Consumables_Our_Revenue,
         Total_Our_Revenue |-> Total_Our_Revenue,
         Hardware_System_Market_Revenue |-> Hardware_System_Market_Revenue,
         Utility_Cart_Market_Revenue |-> Utility_Cart_Market_Revenue,
         TCU_Market_Revenue |-> TCU_Market_Revenue,
         Autofiller_Unit_Market_Revenue |-> Autofiller_Unit_Market_Revenue,
         Total_Hardware_System_Market_Revenue |->
             Total_Hardware_System_Market_Revenue,
         Installation_Market_Revenue |-> Installation_Market_Revenue,
         Software_Market_Revenue |-> Software_Market_Revenue,
         Service_Market_Revenue |-> Service_Market_Revenue,
         Vessel_Market_Revenue |-> Vessel_Market_Revenue,
         Autofiller_Pack_Market_Revenue |-> Autofiller_Pack_Market_Revenue,
         Total_Consumables_Market_Revenue |-> Total_Consumables_Market_Revenue,
         Total_Market_Revenue |-> Total_Market_Revenue,
         Partner_Profit |-> Partner_Profit]

\* scenario['service_adoption'] is read whatever the scenario's
\* enable_service key says: the stage never looks that key up
CalculateValueChain ==
    /\ pc = "value_chain"
    /\ df' = [i \in 1..Len(df) |-> df[i] @@ ValueChainColumns(df, i, scenario)]
    /\ pc' = "profitability"
    /\ UNCHANGED <<config, scenario, output_path, error, returned, csv_written>>

(***************************************************************************)
(* Stage 6: _calculate_profitability.                                      *)
(***************************************************************************)
\* a plausible slip: the margin without its trailing fillna(0)
MarginNoFill(revenue, cost) == Div(Sub(revenue, cost), ReplaceZeroNaN(revenue))

\* ((revenue - cost) / revenue.replace(0, np.nan)).fillna(0)
MarginOf(revenue, cost) ==
    FillNa0(Div(Sub(revenue, cost), ReplaceZeroNaN(revenue)))

\* numerator / df['Total_Our_Revenue'].replace(0, np.nan), with no fillna
ContributionOf(numerator, total) == Div(numerator, ReplaceZeroNaN(total))

ProfitabilityColumns(row) ==
    LET Our_Gross_Profit == Sub(row.Total_Our_Revenue, row.Total_Our_Cost)
        partner_revenue ==
            Sub(Sub(row.Total_Market_Revenue, row.Software_Market_Revenue),
                Sub(row.TCU_Market_Revenue, row.TCU_Our_Revenue))
    IN  [Our_Gross_Profit |-> Our_Gross_Profit,
         Our_Gross_Margin |->
             FillNa0(Div(Our_Gross_Profit, ReplaceZeroNaN(row.Total_Our_Revenue))),
         Partner_Margin |->
             FillNa0(Div(row.Partner_Profit, ReplaceZeroNaN(partner_revenue))),
         Hardware_System_Our_Margin |->
             MarginOf(row.Hardware_System_Our_Revenue, row.Hardware_Our_Cost),
         Utility_Cart_Our_Margin |->
             MarginOf(row.Utility_Cart_Our_Revenue, row.Utility_Cart_Our_Cost),
         TCU_Our_Margin |-> MarginOf(row.TCU_Our_Revenue, row.TCU_Our_Cost),
         Autofiller_Unit_Our_Margin |->
             MarginOf(row.Autofiller_Unit_Our_Revenue, row.Autofiller_Unit_Our_Cost),
         Installation_Our_Margin |->
             MarginOf(row.Installation_Our_Revenue, row.Installation_Our_Cost_Total),
         Software_Our_Margin |->
             MarginOf(row.Software_Our_Revenue, row.Software_Our_Cost_Total),
         Vessel_Our_Margin |->
             MarginOf(row.Vessel_Our_Revenue, row.Vessel_Our_Cost),
         Autofiller_Pack_Our_Margin |->
             MarginOf(row.Autofiller_Pack_Our_Revenue, row.Autofiller_Pack_Our_Cost),
         Service_Our_Margin |->
             MarginOf(row.Service_Our_Revenue, row.Service_Our_Cost),
         Hardware_System_Contribution |->
             ContributionOf(row.Total_Hardware_System_Our_Revenue,
                            row.Total_Our_Revenue),
         Software_Contribution |->
             ContributionOf(row.Software_Our_Revenue, row.Total_Our_Revenue),
         Consumables_Contribution |->
             ContributionOf(Add(row.Vessel_Our_Revenue,
                                row.Autofiller_Pack_Our_Revenue),
                            row.Total_Our_Revenue),
         Services_Contribution |->
             ContributionOf(Add(row.Service_Our_Revenue,
                                row.Installation_Our_Revenue),
                            row.Total_Our_Revenue)]

CalculateProfitability ==
    /\ pc = "profitability"
    /\ df' = [i \in 1..Len(df) |-> df[i] @@ ProfitabilityColumns(df[i])]
    /\ pc' = "export"
    /\ UNCHANGED <<config, scenario, output_path, error, returned, csv_written>>

(***************************************************************************)
(* run_projection's tail: the optional CSV export, then return df.         *)
(***************************************************************************)
ExportAndReturn ==
    /\ pc = "export"
    /\ csv_written' = output_path
    /\ returned' = TRUE
    /\ pc' = "returned"
    /\ UNCHANGED <<config, scenario, output_path, df, error>>

Next ==
    \/ InitializeDataframe
    \/ CalculateCartSales
    \/ CalculatePricing
    \/ CalculateConsumables
    \/ CalculateValueChain
    \/ CalculateProfitability
    \/ ExportAndReturn

(***************************************************************************)
(* The calls explored.                                                     *)
(***************************************************************************)
\* the scenario of run_model.py's main()
RunModelScenario ==
    [start_year |-> 2025,
     start_month |-> 7,
     projection_years |-> 5,
     cost_reduction |-> Zero,
     service_adoption |-> Q(80, 100),
     apply_inflation |-> "False",
     apply_reduction |-> "False",
     enable_service |-> "absent",
     has_selling_price_reduction |-> TRUE,
     selling_price_reduction_by_year |-> [y \in 1..5 |-> Zero],
     has_partner_sales |-> TRUE,
     partner_sales_by_year |-> <<30, 71, 115, 176, 261>>,
     has_direct_sales |-> TRUE,
     direct_sales_by_year |-> [y \in 1..5 |-> 0]]

Uniform(years, target) == [y \in 1..years |-> target]

StartYears == {2024, 2025}

Flags == {"absent", "True", "False"}

\* every start month and horizon, under the shipped Config()
GridCalls ==
    { [config |-> ShippedConfig,
       output_path |-> FALSE,
       scenario |-> [RunModelScenario EXCEPT
                        !.start_year = sy,
                        !.start_month = sm,
                        !.projection_years = h,
                        !.partner_sales_by_year = Uniform(MaxYears, MaxTarget),
                        !.direct_sales_by_year = Uniform(MaxYears, 12)]] :
      sy \in StartYears, sm \in 1..12, h \in 1..MaxYears }

PartnerMaps ==
    { RunModelScenario.partner_sales_by_year,
      Uniform(MaxYears, 10),
      (1 :> 10) @@ (3 :> MaxTarget),
      (MaxYears :> MaxTarget) }

DirectMaps ==
    { Uniform(5, 0), Uniform(MaxYears, 12), (2 :> 20) }

\* unit targets of every shape, under the shipped Config()
SalesCalls ==
    { [config |-> ShippedConfig,
       output_path |-> FALSE,
       scenario |-> [RunModelScenario EXCEPT
                        !.start_month = sm,
                        !.projection_years = h,
                        !.has_partner_sales = hp,
                        !.partner_sales_by_year = p,
                        !.has_direct_sales = hd,
                        !.direct_sales_by_year = d]] :
      sm \in {1, 7, 10}, h \in {1, 5, MaxYears}, hp \in BOOLEAN,
      p \in PartnerMaps, hd \in BOOLEAN, d \in DirectMaps }

\* the toggles and rates, under a Config that carries the software cost
ToggleCalls ==
    { [config |-> ConfigWithSoftwareCost,
       output_path |-> FALSE,
       scenario |-> [RunModelScenario EXCEPT
                        !.start_month = sm,
                        !.projection_years = 2,
                        !.apply_inflation = ai,
                        !.apply_reduction = ar,
                        !.cost_reduction = cr,
                        !.has_selling_price_reduction = hs,
                        !.selling_price_reduction_by_year =
                            (1 :> Zero) @@ (2 :> Q(10, 100)),
                        !.partner_sales_by_year = Uniform(2, 10),
                        !.direct_sales_by_year = Uniform(2, 0)]] :
      sm \in {1, 7}, ai \in Flags, ar \in Flags, cr \in {Zero, Q(12, 100)},
      hs \in BOOLEAN }

\* channels and the service line, under a Config that carries the software cost
ChainCalls ==
    { [config |-> ConfigWithSoftwareCost,
       output_path |-> op,
       scenario |-> [RunModelScenario EXCEPT
                        !.start_month = sm,
                        !.projection_years = 2,
                        !.enable_service = es,
                        !.service_adoption = sa,
                        !.partner_sales_by_year = p,
                        !.direct_sales_by_year = d]] :
      sm \in {1, 7}, op \in BOOLEAN, es \in Flags, sa \in {Zero, Q(80, 100)},
      p \in {Uniform(2, 0), Uniform(2, 10), Uniform(2, MaxTarget), (2 :> 20)},
      d \in {Uniform(2, 0), Uniform(2, 12)} }

\* the two sales keys present or absent, under a Config that carries the
\* software cost
KeyCalls ==
    { [config |-> ConfigWithSoftwareCost,
       output_path |-> op,
       scenario |-> [RunModelScenario EXCEPT
                        !.projection_years = 2,
                        !.has_partner_sales = hp,
                        !.partner_sales_by_year = Uniform(2, MaxTarget),
                        !.has_direct_sales = hd,
                        !.direct_sales_by_year = Uniform(2, 12)]] :
      op \in BOOLEAN, hp \in BOOLEAN, hd \in BOOLEAN }

\* run_model.py's own call, and the same scenario under the other Config
RunModelCalls ==
    { [config |-> c, output_path |-> TRUE, scenario |-> RunModelScenario] :
      c \in {ShippedConfig, ConfigWithSoftwareCost} }

Calls ==
    RunModelCalls \cup GridCalls \cup SalesCalls \cup ToggleCalls \cup ChainCalls
        \cup KeyCalls

Init ==
    /\ \E call \in Calls :
          /\ config = call.config
          /\ scenario = call.scenario
          /\ output_path = call.output_path
    /\ df = << >>
    /\ pc = "initialize"
    /\ error = "none"
    /\ returned = FALSE
    /\ csv_written = FALSE

Spec == Init /\ [][Next]_vars

(***************************************************************************)
(* Properties.                                                             *)
(***************************************************************************)
\* the stage that adds `column` has run
HasColumn(column) == Len(df) > 0 /\ column \in DOMAIN df[1]

Rows == 1..Len(df)

\* two floats are equal numbers (NaN equals nothing, as in IEEE)
NumEq(a, b) == IsNum(a) /\ IsNum(b) /\ a = b

RECURSIVE SumOver(_, _)
SumOver(col, S) ==
    IF S = {} THEN 0
    ELSE LET x == CHOOSE x \in S : TRUE IN col[x] + SumOver(col, S \ {x})

\* C1: run_projection with the shipped Config() and the scenario of
\* run_model.py never raises, and the table it returns has exactly 60 rows
\* whose Partner_Carts over Relative_Year 1 sum to 30 give or take 1.
C1_EndToEndCompletes ==
    (config = ShippedConfig /\ scenario = RunModelScenario) =>
        /\ error = "none"
        /\ returned =>
             /\ Len(df) = 60
             /\ LET s == SumOver([i \in Rows |-> df[i].Partner_Carts],
                                 {i \in Rows : df[i].Relative_Year = 1})
                IN  s \in 29..31

\* C2: after the unit-sales stage every row whose relative year has an
\* entry in a channel's target mapping carries
\* round(target * quarter weight * month weight) units of that channel,
\* whatever the year's number (also beyond year 5).
C2_UnitsForEveryMappedYear ==
    HasColumn("Partner_Carts") =>
        LET partner == scenario.partner_sales_by_year
            direct == IF scenario.has_direct_sales
                      THEN scenario.direct_sales_by_year ELSE DefaultDirectSales
            q(row) == ((row.Relative_Month - 1) \div 3) + 1
            m(row) == ((row.Relative_Month - 1) % 3) + 1
        IN  \A i \in Rows :
              /\ df[i].Relative_Year \in DOMAIN partner =>
                    df[i].Partner_Carts =
                        MonthlyCarts(partner[df[i].Relative_Year], q(df[i]), m(df[i]))
              /\ df[i].Relative_Year \in DOMAIN direct =>
                    df[i].Direct_Carts =
                        MonthlyCarts(direct[df[i].Relative_Year], q(df[i]), m(df[i]))

\* C3: the partner share of the installed base is Cumulative_Partner_Carts /
\* Total_Carts where Total_Carts > 0 and exactly 0 where Total_Carts = 0, so
\* the consumables revenues and both revenue totals are numbers on rows
\* before the first unit is sold.
C3_ZeroSafeCartsRatio ==
    HasColumn("carts_ratio_partner") =>
        \A i \in Rows :
          /\ df[i].Total_Carts > 0 =>
                NumEq(df[i].carts_ratio_partner,
                      Div(I(df[i].Cumulative_Partner_Carts), I(df[i].Total_Carts)))
          /\ df[i].Total_Carts = 0 =>
                /\ df[i].carts_ratio_partner = Zero
                /\ df[i].Vessel_Our_Revenue = Zero
                /\ df[i].Autofiller_Pack_Our_Revenue = Zero
                /\ IsNum(df[i].Total_Our_Revenue)
                /\ IsNum(df[i].Total_Market_Revenue)

\* C4: the four contribution ratios are exactly 0 on every row whose
\* Total_Our_Revenue is 0, and on every row whose Total_Our_Revenue is not 0
\* their numerators add up to Total_Our_Revenue.
C4_ContributionsZeroSafe ==
    HasColumn("Services_Contribution") =>
        \A i \in Rows :
          /\ IsZero(df[i].Total_Our_Revenue) =>
                /\ df[i].Hardware_System_Contribution = Zero
                /\ df[i].Software_Contribution = Zero
                /\ df[i].Consumables_Contribution = Zero
                /\ df[i].Services_Contribution = Zero
          /\ (IsNum(df[i].Total_Our_Revenue) /\ ~IsZero(df[i].Total_Our_Revenue)) =>
                NumEq(Add(Add(Add(df[i].Total_Hardware_System_Our_Revenue,
                                  df[i].Software_Our_Revenue),
                              Add(df[i].Vessel_Our_Revenue,
                                  df[i].Autofiller_Pack_Our_Revenue)),
                          Add(df[i].Service_Our_Revenue,
                              df[i].Installation_Our_Revenue)),
                      df[i].Total_Our_Revenue)

\* C5: with enable_service false or absent the three service columns are 0
\* on every row.
C5_ServiceGatedByToggle ==
    (HasColumn("Service_Our_Revenue") /\ ~GetFlag(scenario.enable_service, FALSE)) =>
        \A i \in Rows :
          /\ df[i].Service_Our_Revenue = Zero
          /\ df[i].Service_Market_Revenue = Zero
          /\ df[i].Service_Our_Cost = Zero

\* the scenario with every absent toggle written out as False
TogglesOff(scn) ==
    [scn EXCEPT !.apply_inflation = IF @ = "absent" THEN "False" ELSE @,
                !.apply_reduction = IF @ = "absent" THEN "False" ELSE @]

\* C6: with apply_inflation / apply_reduction absent, every column of the
\* pricing stage equals its value under the same scenario with the absent
\* keys set to False.
C6_AbsentTogglesAreOff ==
    HasColumn("Base_Selling_Price") =>
        \A i \in Rows :
            LET off == PricingColumns(df[i], TogglesOff(scenario))
            IN  \A c \in DOMAIN off : df[i][c] = off[c]

\* C7: on every row with units sold, TCU_Our_Revenue equals TCU_Our_Cost.
C7_TcuPassThroughNeutral ==
    HasColumn("TCU_Our_Revenue") =>
        \A i \in Rows :
            df[i].Monthly_New_Carts # 0 =>
                NumEq(df[i].TCU_Our_Revenue, df[i].TCU_Our_Cost)

\* market revenue minus internal revenue, summed over the line items other
\* than software and TCU
PartnerSpread(row) ==
    Add(Add(Add(Add(Add(Add(
        Sub(row.Hardware_System_Market_Revenue, row.Hardware_System_Our_Revenue),
        Sub(row.Utility_Cart_Market_Revenue, row.Utility_Cart_Our_Revenue)),
        Sub(row.Autofiller_Unit_Market_Revenue, row.Autofiller_Unit_Our_Revenue)),
        Sub(row.Installation_Market_Revenue, row.Installation_Our_Revenue)),
        Sub(row.Service_Market_Revenue, row.Service_Our_Revenue)),
        Sub(row.Vessel_Market_Revenue, row.Vessel_Our_Revenue)),
        Sub(row.Autofiller_Pack_Market_Revenue, row.Autofiller_Pack_Our_Revenue))

\* C8: on every row Partner_Profit is the number PartnerSpread(row): software
\* and the TCU contribute nothing to it.
C8_PartnerProfitExcludesSoftwareAndTcu ==
    HasColumn("Partner_Profit") =>
        \A i \in Rows : NumEq(df[i].Partner_Profit, PartnerSpread(df[i]))

\* C9: the time grid has exactly 12*H rows, one month apart in increasing
\* calendar order from the start period; Relative_Year takes each value of
\* 1..H on exactly 12 rows; Relative_Month is in 1..12 and is 1 exactly on
\* the rows of the start month.
C9_TimeGrid ==
    HasColumn("Date_Value") =>
        LET H == scenario.projection_years
            sy == scenario.start_year
            sm == scenario.start_month
        IN  /\ Len(df) = 12 * H
            /\ df[1].Year = sy /\ df[1].Month = sm
            /\ \A i \in Rows :
                  /\ df[i].Month \in 1..12
                  /\ df[i].Date_Value = df[i].Year * 12 + df[i].Month
                  /\ i > 1 => df[i].Date_Value = df[i - 1].Date_Value + 1
                  /\ df[i].Relative_Year \in 1..H
                  /\ df[i].Relative_Month \in 1..12
                  /\ (df[i].Relative_Month = 1) <=> (df[i].Month = sm)
                  /\ i > 1 => df[i].Relative_Year =
                                 IF df[i].Month = sm
                                 THEN df[i - 1].Relative_Year + 1
                                 ELSE df[i - 1].Relative_Year
            /\ \A y \in 1..H :
                  Cardinality({i \in Rows : df[i].Relative_Year = y}) = 12

\* C9 witness: a January start (the end month wraps to December of the
\* previous year) over the longest horizon, grid built
C9_Witness ==
    /\ HasColumn("Date_Value")
    /\ scenario.start_month = 1
    /\ scenario.projection_years = MaxYears
    /\ df[Len(df)].Month = 12
    /\ df[Len(df)].Year = scenario.start_year + MaxYears - 1

\* C10: after the unit-sales stage Monthly_New_Carts = Partner_Carts +
\* Direct_Carts, each cumulative column is the running sum of its monthly
\* column, none of them ever decreases, and Total_Carts =
\* Cumulative_Partner_Carts + Cumulative_Direct_Carts.
C10_CumulativeColumns ==
    HasColumn("Total_Carts") =>
        \A t \in Rows :
            LET prev(column) == IF t = 1 THEN 0 ELSE df[t - 1][column]
            IN  /\ df[t].Monthly_New_Carts = df[t].Partner_Carts + df[t].Direct_Carts
                /\ df[t].Total_Carts = prev("Total_Carts") + df[t].Monthly_New_Carts
                /\ df[t].Cumulative_Partner_Carts =
                       prev("Cumulative_Partner_Carts") + df[t].Partner_Carts
                /\ df[t].Cumulative_Direct_Carts =
                       prev("Cumulative_Direct_Carts") + df[t].Direct_Carts
                /\ df[t].Total_Carts >= prev("Total_Carts")
                /\ df[t].Cumulative_Partner_Carts >= prev("Cumulative_Partner_Carts")
                /\ df[t].Cumulative_Direct_Carts >= prev("Cumulative_Direct_Carts")
                /\ df[t].Total_Carts =
                       df[t].Cumulative_Partner_Carts + df[t].Cumulative_Direct_Carts

\* C10 witness: a row past the first where both channels have sold units and
\* the installed base has grown over the previous row
C10_Witness ==
    /\ HasColumn("Total_Carts")
    /\ \E t \in Rows :
          /\ t > 1
          /\ df[t].Partner_Carts > 0
          /\ df[t].Direct_Carts > 0
          /\ df[t - 1].Total_Carts > 0
          /\ df[t].Total_Carts > df[t - 1].Total_Carts

\* C11: service revenue is billed one period in arrears: Service_Our_Revenue
\* (and Service_Market_Revenue) is 0 on the first row, and on every later
\* row t it is Cumulative_Partner_Carts of row t-1 times row t's own
\* End_Customer_Hardware_Price times the service-contract percentage / 12
\* times service_adoption, so units of month t earn nothing in month t.
C11_ServiceInArrears ==
    HasColumn("Service_Our_Revenue") =>
        \A t \in Rows :
            LET base == IF t = 1 THEN Zero
                        ELSE I(df[t - 1].Cumulative_Partner_Carts)
                due == Mul(Mul(Mul(base, df[t].End_Customer_Hardware_Price),
                               Div(SERVICE_CONTRACT_PERCENTAGE, I(12))),
                           scenario.service_adoption)
            IN  /\ t = 1 => df[t].Service_Our_Revenue = Zero
                /\ NumEq(df[t].Service_Our_Revenue, due)
                /\ NumEq(df[t].Service_Market_Revenue, due)

\* C11 witness: partner units are installed on the first row and earn no
\* service revenue there, and a later row installs more units while being
\* billed a nonzero amount for the previous row's installed base only
C11_Witness ==
    /\ HasColumn("Service_Our_Revenue")
    /\ ~IsZero(scenario.service_adoption)
    /\ df[1].Partner_Carts > 0
    /\ df[1].Service_Our_Revenue = Zero
    /\ \E t \in Rows :
          /\ t > 1
          /\ df[t].Partner_Carts > 0
          /\ df[t - 1].Cumulative_Partner_Carts > 0
          /\ ~IsZero(df[t].Service_Our_Revenue)

\* the margin columns, each with the revenue its ratio divides by
MarginDenominators(row) ==
    [Our_Gross_Margin |-> row.Total_Our_Revenue,
     Partner_Margin |->
         Sub(Sub(row.Total_Market_Revenue, row.Software_Market_Revenue),
             Sub(row.TCU_Market_Revenue, row.TCU_Our_Revenue)),
     Hardware_System_Our_Margin |-> row.Hardware_System_Our_Revenue,
     Utility_Cart_Our_Margin |-> row.Utility_Cart_Our_Revenue,
     TCU_Our_Margin |-> row.TCU_Our_Revenue,
     Autofiller_Unit_Our_Margin |-> row.Autofiller_Unit_Our_Revenue,
     Installation_Our_Margin |-> row.Installation_Our_Revenue,
     Software_Our_Margin |-> row.Software_Our_Revenue,
     Vessel_Our_Margin |-> row.Vessel_Our_Revenue,
     Autofiller_Pack_Our_Margin |-> row.Autofiller_Pack_Our_Revenue,
     Service_Our_Margin |-> row.Service_Our_Revenue]

\* C12: every margin column (Our_Gross_Margin, Partner_Margin and the nine
\* per-line-item *_Our_Margin columns) is a number on every row, never NaN
\* or infinite, and is exactly 0 on every row whose denominator revenue is
\* not a nonzero number (zero sales, zero installed base).
C12_MarginsZeroSafe ==
    HasColumn("Our_Gross_Margin") =>
        \A i \in Rows :
            LET den == MarginDenominators(df[i])
            IN  \A c \in DOMAIN den :
                  /\ IsNum(df[i][c])
                  /\ (~IsNum(den[c]) \/ IsZero(den[c])) => df[i][c] = Zero

\* C12 witness: the profitability stage has run on a table that has a row
\* of a relative year with no sales and no installed base, whose line-item
\* revenues are 0 and whose margins are 0, and a row with revenue and a
\* nonzero margin
C12_Witness ==
    /\ HasColumn("Our_Gross_Margin")
    /\ \E i \in Rows :
          /\ df[i].Total_Carts = 0
          /\ df[i].Monthly_New_Carts = 0
          /\ IsZero(df[i].Hardware_System_Our_Revenue)
          /\ IsZero(df[i].Service_Our_Revenue)
          /\ df[i].Hardware_System_Our_Margin = Zero
          /\ df[i].Our_Gross_Margin = Zero
          /\ df[i].Partner_Margin = Zero
    /\ \E j \in Rows :
          /\ ~IsZero(df[j].Hardware_System_Our_Revenue)
          /\ ~IsZero(df[j].Hardware_System_Our_Margin)
          /\ ~IsZero(df[j].Our_Gross_Margin)

\* the end-customer prices and the partner prices computed from them
PriceColumnNames ==
    {"Base_Selling_Price", "End_Customer_Hardware_Price",
     "Utility_Cart_End_Price", "TCU_End_Price", "Autofiller_Unit_End_Price",
     "End_Customer_Software_Price", "End_Customer_Vessel_Price",
     "End_Customer_Autofiller_Pack_Price", "Installation_End_Price",
     "Hardware_Partner_Price", "Utility_Cart_Partner_Price",
     "TCU_Partner_Price", "Autofiller_Unit_Partner_Price",
     "Software_Partner_Price", "Vessel_Partner_Price",
     "Autofiller_Pack_Partner_Price"}

\* the internal cost columns of the pricing stage
CostColumnNames ==
    {"Hardware_Manufacturing_Cost", "Utility_Cart_Mfg_Cost", "TCU_Mfg_Cost",
     "Autofiller_Unit_Mfg_Cost", "Vessel_Manufacturing_Cost",
     "Autofiller_Pack_Mfg_Cost", "Installation_Our_Cost"}

\* the scenarios that differ from scn in cost_reduction and/or apply_reduction
ReductionVariants(scn) ==
    { [scn EXCEPT !.cost_reduction = cr, !.apply_reduction = ar] :
      cr \in {Zero, Q(12, 100), Q(24, 100)}, ar \in Flags }

\* the pricing stage has just returned its table
PricingDone == pc = "consumables"

\* C13: selling prices never receive cost reduction: under any scenario that
\* differs from the one run only in cost_reduction and/or apply_reduction,
\* every end-customer price and every partner price derived from one is, row
\* by row, the value the pricing stage produced in the run.
C13_PricesIgnoreCostReduction ==
    PricingDone =>
        \A i \in Rows : \A other \in ReductionVariants(scenario) :
            LET cols == PricingColumns(df[i], other)
            IN  \A c \in PriceColumnNames : df[i][c] = cols[c]

\* C13 witness: the pricing stage has run with reduction applied at a
\* nonzero rate, and on a row past the start every internal cost is below
\* its value at rate 0, so the compared scenarios do differ in their costs
C13_Witness ==
    /\ PricingDone
    /\ ApplyReductionFlag(scenario)
    /\ ~IsZero(scenario.cost_reduction)
    /\ \E i \in Rows :
          LET flat == PricingColumns(df[i],
                          [scenario EXCEPT !.cost_reduction = Zero])
          IN  /\ ~IsZero(df[i].Year_Fraction)
              /\ \A c \in CostColumnNames :
                    /\ df[i][c] # flat[c]
                    /\ Geq(flat[c], df[i][c])
              /\ \A c \in PriceColumnNames : df[i][c] = flat[c]

\* the configured base value of every price and cost column of the pricing
\* stage: the constant itself, or the constant times the fixed factor the
\* stage derives the column with
BaseValues ==
    [Base_Selling_Price |-> I(INITIAL_SELLING_PRICE),
     End_Customer_Hardware_Price |-> I(INITIAL_SELLING_PRICE),
     Hardware_Manufacturing_Cost |->
         Mul(I(COMPONENTS_COST), Add(I(1), LABOR_COST_PERCENTAGE)),
     Utility_Cart_Mfg_Cost |-> I(UTILITY_CART_COST),
     Utility_Cart_End_Price |-> I(UTILITY_CART_PRICE),
     TCU_Mfg_Cost |-> I(TCU_COST),
     TCU_End_Price |-> I(TCU_PRICE),
     Autofiller_Unit_Mfg_Cost |-> I(AUTOFILLER_COST),
     Autofiller_Unit_End_Price |-> I(AUTOFILLER_PRICE),
     Total_Hardware_Manufacturing_Cost |->
         Add(Add(Mul(I(COMPONENTS_COST), Add(I(1), LABOR_COST_PERCENTAGE)),
                 I(UTILITY_CART_COST)), I(TCU_COST)),
     Hardware_Partner_Price |->
         Mul(I(INITIAL_SELLING_PRICE), Sub(I(1), PARTNER_HARDWARE_DISCOUNT)),
     Utility_Cart_Partner_Price |->
         Mul(I(UTILITY_CART_PRICE), Sub(I(1), PARTNER_HARDWARE_DISCOUNT)),
     End_Customer_Software_Price |-> I(SUBSCRIPTION_PRICE),
     Software_Our_Cost |-> Mul(I(SUBSCRIPTION_PRICE), SOFTWARE_COST_PERCENTAGE),
     Software_Partner_Price |-> Zero,
     End_Customer_Vessel_Price |-> I(INITIAL_VESSEL_PRICE),
     Vessel_Manufacturing_Cost |-> I(INITIAL_VESSEL_COST),
     Vessel_Partner_Price |->
         Mul(I(INITIAL_VESSEL_PRICE), Sub(I(1), PARTNER_CONSUMABLES_DISCOUNT)),
     End_Customer_Autofiller_Pack_Price |-> I(INITIAL_AUTOFILLER_PACK_PRICE),
     Autofiller_Pack_Mfg_Cost |-> I(INITIAL_AUTOFILLER_PACK_COST),
     Autofiller_Pack_Partner_Price |->
         Mul(I(INITIAL_AUTOFILLER_PACK_PRICE),
             Sub(I(1), PARTNER_CONSUMABLES_DISCOUNT)),
     Installation_End_Price |-> I(INSTALLATION_PRICE),
     Installation_Our_Cost |-> I(INSTALLATION_COST)]

\* both toggles are set to False and no year's selling price is reduced
NoAdjustments(scn) ==
    /\ scn.apply_inflation = "False"
    /\ scn.apply_reduction = "False"
    /\ \A y \in DOMAIN SellingPriceReduction(scn) :
          IsZero(SellingPriceReduction(scn)[y])

C15_MissingSalesKeys ==
    /\ ~scenario.has_partner_sales =>
          /\ ~returned
          /\ ~csv_written
          /\ pc \notin {"initialize", "cart_sales"} =>
                (pc = "raised" /\ error # "none")
    /\ (scenario.has_partner_sales /\ ~scenario.has_direct_sales) =>
          /\ error = "none"
          /\ pc # "raised"
          /\ HasColumn("Direct_Carts") =>
                \A i \in Rows : df[i].Direct_Carts = 0

\* C16: in the value-chain stage's output Total_Market_Revenue >=
\* Total_Our_Revenue on every row: the spread taken by the partner is never
\* negative.
C16_MarketRevenueCoversOurs ==
    HasColumn("Total_Market_Revenue") =>
        \A i \in Rows :
            Geq(df[i].Total_Market_Revenue, df[i].Total_Our_Revenue)

\* C17: on every row, whatever the channels sell, Service_Our_Cost equals
\* Service_Our_Revenue times the service cost ratio 0.40.
C17_ServiceCostIsRatioOfRevenue ==
    HasColumn("Service_Our_Cost") =>
        \A i \in Rows :
            NumEq(df[i].Service_Our_Cost,
                  Mul(df[i].Service_Our_Revenue, Q(40, 100)))

C19_ChannelsIndependent ==
    (scenario.has_partner_sales /\ pc # "initialize") =>
        /\ error # "KeyError"
        /\ HasColumn("Direct_Carts") =>
              LET partner == scenario.partner_sales_by_year
                  direct == IF scenario.has_direct_sales
                            THEN scenario.direct_sales_by_year
                            ELSE DefaultDirectSales
              IN  \A i \in Rows :
                    LET y == df[i].Relative_Year
                        q == ((df[i].Relative_Month - 1) \div 3) + 1
                        m == ((df[i].Relative_Month - 1) % 3) + 1
                    IN  /\ y \notin DOMAIN partner => df[i].Partner_Carts = 0
                        /\ y \notin DOMAIN direct => df[i].Direct_Carts = 0
                        /\ (y \in DOMAIN direct /\ y \in LoopYears) =>
                              df[i].Direct_Carts = MonthlyCarts(direct[y], q, m)

\* the rows the distribution loop writes partner units to
PartnerRows ==
    {i \in Rows : /\ df[i].Relative_Year \in LoopYears
                  /\ df[i].Relative_Year \in DOMAIN scenario.partner_sales_by_year}

\* C20 as stated: the weights of a row are those of its own Quarter and
\* Month_in_Quarter columns (the calendar quarter of its month): for every
\* start month Partner_Carts = round(target of the row's relative year x
\* quarter_weight[Quarter] x month_weight[Month_in_Quarter]).
C20_CalendarQuarterWeights ==
    HasColumn("Partner_Carts") =>
        \A i \in PartnerRows :
            df[i].Partner_Carts =
                MonthlyCarts(scenario.partner_sales_by_year[df[i].Relative_Year],
                             df[i].Quarter, df[i].Month_in_Quarter)

\* C20 amended: the weights of a row are those of its quarter and month
\* within its RELATIVE year, counted from the start month: Partner_Carts =
\* round(target x quarter_weight[k] x month_weight[j]) for the k-th quarter
\* and j-th month-in-quarter of Months_From_Start within the year.  They are
\* the weights of the Quarter and Month_in_Quarter columns for a January
\* start.
C20_RelativeQuarterWeights ==
    HasColumn("Partner_Carts") =>
        \A i \in PartnerRows :
            LET within == df[i].Months_From_Start % 12
                k == (within \div 3) + 1
                j == (within % 3) + 1
                target == scenario.partner_sales_by_year[df[i].Relative_Year]
                units == Mul(Mul(I(target), quarter_distribution[k]),
                             month_in_quarter_distribution[j])
            IN  /\ df[i].Partner_Carts = Round(units.n, units.d)
                /\ scenario.start_month = 1 =>
                      (k = df[i].Quarter /\ j = df[i].Month_in_Quarter)

\* C20 witness: a July start whose October row (calendar Q4, first month)
\* carries the units of the second quarter's first month of the relative
\* year, which differ from the units the calendar weights would give
C20_Witness ==
    /\ HasColumn("Partner_Carts")
    /\ scenario.start_month = 7
    /\ \E i \in PartnerRows :
          /\ df[i].Month = 10
          /\ df[i].Quarter = 4
          /\ df[i].Relative_Month = 4
          /\ df[i].Partner_Carts > 0
          /\ df[i].Partner_Carts #
                MonthlyCarts(scenario.partner_sales_by_year[df[i].Relative_Year],
                             df[i].Quarter, df[i].Month_in_Quarter)

\* C21: partner prices apply the discount of the item's category: on every
\* row each hardware item sold at a discount (base hardware, utility cart,
\* autofiller unit) has partner price = end-customer price x
\* (1 - PARTNER_HARDWARE_DISCOUNT), and each consumable (vessel, autofiller
\* pack) has partner price = end-customer price x
\* (1 - PARTNER_CONSUMABLES_DISCOUNT).
C21_PartnerDiscountByCategory ==
    HasColumn("Hardware_Partner_Price") =>
        \A i \in Rows :
            LET hardware == Sub(I(1), PARTNER_HARDWARE_DISCOUNT)
                consumables == Sub(I(1), PARTNER_CONSUMABLES_DISCOUNT)
            IN  /\ df[i].Hardware_Partner_Price =
                       Mul(df[i].End_Customer_Hardware_Price, hardware)
                /\ df[i].Utility_Cart_Partner_Price =
                       Mul(df[i].Utility_Cart_End_Price, hardware)
                /\ df[i].Autofiller_Unit_Partner_Price =
                       Mul(df[i].Autofiller_Unit_End_Price, hardware)
                /\ df[i].Vessel_Partner_Price =
                       Mul(df[i].End_Customer_Vessel_Price, consumables)
                /\ df[i].Autofiller_Pack_Partner_Price =
                       Mul(df[i].End_Customer_Autofiller_Pack_Price, consumables)

====
